---- MODULE Spec2Model ----
(***************************************************************************)
(* Budget ledger, request validator and indent line-item ledger of the     *)
(* maintenance-budget tracker, as implemented by src/app_v11.py.           *)
(*                                                                         *)
(* The store is the SQLite file tracker_2026.db, which all three releases  *)
(* (app_v6_final.py, app_v8.py, app_v11.py) open under the same name; its  *)
(* tables are created with CREATE TABLE IF NOT EXISTS, so a store made by  *)
(* an earlier release keeps its rows and its schema.  The Streamlit caches *)
(* (st.cache_data) are process-wide and start empty.                       *)
(*                                                                         *)
(* Money is modelled in whole currency units.  A cache entry is <<>> when  *)
(* absent and <<v>> when it holds the value v.                             *)
(***************************************************************************)
EXTENDS Integers, FiniteSets, Sequences, TLC

VARIABLES budget_heads, requests, mn_unique,
          indent_purchase_record, indent_goods_details, next_goods_id,
          current_goods_data, cache_load_data, cache_calculate_status,
          submit_run, role, users, lc_po_tracker, exchange_config,
          cache_load_config, cache_get_config_rates, balance_sheet, last

vars == <<budget_heads, requests, mn_unique,
          indent_purchase_record, indent_goods_details, next_goods_id,
          current_goods_data, cache_load_data, cache_calculate_status,
          submit_run, role, users, lc_po_tracker, exchange_config,
          cache_load_config, cache_get_config_rates, balance_sheet, last>>

ledgerStore == <<budget_heads, requests, mn_unique>>
sideStore == <<role, users, lc_po_tracker, exchange_config>>
configCaches == <<cache_load_config, cache_get_config_rates>>
indentStore == <<indent_purchase_record, indent_goods_details, next_goods_id,
                 current_goods_data>>

(* ------------------------------ bounds --------------------------------- *)
MaxCost == 2
MaxBudget == 3
MaxQty == 2
MaxGoods == 3
MaxSessionGoods == 2

MaxReqId == 3
ReqIds == 1..MaxReqId
MaxHeadId == 4
HeadIds == 1..MaxHeadId
MNs == {"M1", "M2", "M3"}
AreaNames == {"A", "B", "C"}
Depts == {"D1", "D2"}
Bills == {"B1", "B2"}
Blank == ""

(* ------------------------------ helpers -------------------------------- *)
RECURSIVE SumCost(_)
SumCost(S) ==
    IF S = {} THEN 0
    ELSE LET r == CHOOSE x \in S : TRUE
         IN  r.landed_total_cost + SumCost(S \ {r})

RECURSIVE SumAmount(_)
SumAmount(S) ==
    IF S = {} THEN 0
    ELSE LET g == CHOOSE x \in S : TRUE
         IN  g.amount + SumAmount(S \ {g})

NoEntry == <<>>

(* ------------------- load_data: read-through, ttl cache ----------------- *)
load_budget_heads_all(c) ==
    IF c.budget_heads_all # NoEntry THEN c.budget_heads_all[1] ELSE budget_heads

load_requests_all(c) ==
    IF c.requests_all # NoEntry THEN c.requests_all[1] ELSE requests

load_area_dept(c) ==
    IF c.area_dept # NoEntry THEN c.area_dept[1]
    ELSE {[cost_area |-> b.cost_area, department |-> b.department] : b \in budget_heads}

load_request_by_id(c, i) ==
    IF c.request_by_id[i] # NoEntry THEN c.request_by_id[i][1]
    ELSE {r \in requests : r.id = i}

load_budget_by_id(c, i) ==
    IF c.budget_by_id[i] # NoEntry THEN c.budget_by_id[i][1]
    ELSE {b \in budget_heads : b.id = i}

fill_budget_heads_all(c) == [c EXCEPT !.budget_heads_all = <<load_budget_heads_all(c)>>]
fill_requests_all(c) == [c EXCEPT !.requests_all = <<load_requests_all(c)>>]
fill_area_dept(c) == [c EXCEPT !.area_dept = <<load_area_dept(c)>>]
fill_request_by_id(c, i) == [c EXCEPT !.request_by_id[i] = <<load_request_by_id(c, i)>>]
fill_budget_by_id(c, i) == [c EXCEPT !.budget_by_id[i] = <<load_budget_by_id(c, i)>>]

EmptyCache ==
    [budget_heads_all |-> NoEntry,
     requests_all     |-> NoEntry,
     area_dept        |-> NoEntry,
     request_by_id    |-> [i \in ReqIds |-> NoEntry],
     budget_by_id     |-> [i \in HeadIds |-> NoEntry],
     header_by_bill   |-> [b \in Bills |-> NoEntry],
     goods_by_bill    |-> [b \in Bills |-> NoEntry],
     total_by_bill    |-> [b \in Bills |-> NoEntry],
     approved_requests |-> NoEntry,
     status_by_mn     |-> [m \in MNs |-> NoEntry]]

(* ---------------------------- calculate_status -------------------------- *)
(* The merged frame: one row per budget head, left-joined with the summed   *)
(* landed_total_cost of the requests of its cost_area.                      *)
MergedRow(b, spent) ==
    [cost_area |-> b.cost_area, total_budget |-> b.total_budget,
     utilized |-> spent, remaining |-> b.total_budget - spent]

MergedStatus(budgets, reqs) ==
    {MergedRow(b, SumCost({r \in reqs : r.cost_area = b.cost_area})) : b \in budgets}

calculate_status(c, cs) ==
    IF cs # NoEntry THEN cs[1]
    ELSE MergedStatus(load_budget_heads_all(c), load_requests_all(c))

calculate_status_load(c, cs) ==
    IF cs # NoEntry THEN c ELSE fill_requests_all(fill_budget_heads_all(c))

StatusRows(df, area) == {row \in df : row.cost_area = area}

(* The value a call of calculate_status returns in the current state.       *)
df_status == calculate_status(cache_load_data, cache_calculate_status)

(* What the ledger is by definition: computed from the stored rows.         *)
TrueStatus == MergedStatus(budget_heads, requests)
TrueUtilized(area) == SumCost({r \in requests : r.cost_area = area})
TrueRemaining(area) ==
    (CHOOSE b \in budget_heads : b.cost_area = area).total_budget - TrueUtilized(area)

(* ------------------------------ Init ----------------------------------- *)
(* A store as an earlier release left it: two budget heads, two requests    *)
(* with distinct mn_number, every area within its budget.  mn_unique says   *)
(* whether requests.mn_number carries the UNIQUE constraint (a table made   *)
(* by app_v8/app_v11) or not (a table made by app_v6_final).                *)
InitHeads ==
    {[id |-> 1, department |-> "D1", cost_area |-> "A", total_budget |-> MaxBudget],
     [id |-> 2, department |-> "D1", cost_area |-> "B", total_budget |-> MaxBudget - 1]}

InitRequests(a2, c1, c2) ==
    {[id |-> 1, mn_number |-> "M1", cost_area |-> "A", department |-> "D1",
      estimated_cost |-> c1, landed_total_cost |-> c1, status |-> "Pending"],
     [id |-> 2, mn_number |-> "M2", cost_area |-> a2, department |-> "D1",
      estimated_cost |-> c2, landed_total_cost |-> c2, status |-> "Pending"]}

WithinBudget ==
    \A b \in budget_heads : TrueUtilized(b.cost_area) <= b.total_budget

NoOp == [op |-> "none", outcome |-> "none", id |-> 0, mn_number |-> Blank,
         department |-> Blank, cost_area |-> Blank, cost |-> 0]

(* Browser sessions whose script runs can overlap; each is idle, between   *)
(* its budget check and its INSERT, or done with a submission; seen is the *)
(* ids of the requests stored when its checks ran.                         *)
Sessions == {1, 2}

Idle == [pc |-> "idle", mn_number |-> Blank, cost_area |-> Blank, landed_total_cost |-> 0,
         seen |-> {}]

MaxRate == 2

(* The rows of exchange_config as init_db leaves them, in the units of the *)
(* model: every rate 1 except GBP, no duty.                                *)
DefaultConfig ==
    [USD_rate |-> 1, EUR_rate |-> 1, GBP_rate |-> MaxRate, INR_rate |-> 1,
     OTHER_rate |-> 1, CustomsDuty_pct |-> 0]

(* What every specification starts from besides its tables: an             *)
(* administrator logged in, the default configuration, no tracker rows,    *)
(* nothing cached.                                                         *)
InitSide ==
    /\ submit_run = [s \in Sessions |-> Idle]
    /\ role = "administrator"
    /\ users = {[username |-> "admin", password_hash |-> "admin1024098",
                  role |-> "administrator"]}
    /\ lc_po_tracker = {}
    /\ exchange_config = DefaultConfig
    /\ cache_load_config = NoEntry
    /\ cache_get_config_rates = NoEntry
    /\ balance_sheet = NoEntry

InitLedger ==
    /\ InitSide
    /\ budget_heads = InitHeads
    /\ \E a2 \in {"A", "B"}, c1 \in 1..(MaxCost - 1), c2 \in 1..(MaxCost - 1) :
          requests = InitRequests(a2, c1, c2)
    /\ mn_unique \in BOOLEAN
    /\ WithinBudget
    /\ cache_load_data = EmptyCache
    /\ cache_calculate_status = NoEntry
    /\ last = NoOp

InitIndentEmpty ==
    /\ indent_purchase_record = {}
    /\ indent_goods_details = {}
    /\ next_goods_id = 1
    /\ current_goods_data = <<>>


(* ---------------------------- landed cost ------------------------------ *)
(* get_config_rates: the fx_rates dictionary and the duty read from the    *)
(* exchange_config rows; BDT is fixed at 1.  Amounts and rates are whole   *)
(* numbers here, the duty is 0 (none) or 1 (100 percent), the ends of the  *)
(* range the configuration form allows.                                    *)
MaxDuty == 1
MaxInput == 1
Currencies == {"BDT", "USD", "EUR", "GBP", "INR", "Other"}

ConfigDicts ==
    {[USD_rate |-> u, EUR_rate |-> e, GBP_rate |-> MaxRate, INR_rate |-> 1,
      OTHER_rate |-> u, CustomsDuty_pct |-> d]
     : u \in 1..MaxRate, e \in 1..MaxRate, d \in 0..MaxDuty}

get_config_rates(config_dict) ==
    [fx_rates |-> [BDT |-> 1, USD |-> config_dict.USD_rate, EUR |-> config_dict.EUR_rate,
                   GBP |-> config_dict.GBP_rate, INR |-> config_dict.INR_rate,
                   Other |-> config_dict.OTHER_rate],
     customs_duty_pct |-> config_dict.CustomsDuty_pct]

(* fx_rates.get(currency, 1.0) *)
exchange_rate(fx_rates, currency) ==
    IF currency \in DOMAIN fx_rates THEN fx_rates[currency] ELSE 1

(* The live calculation on the create form.                                *)
landed_total_cost(config_dict, currency, foreign_spare_cost, freight_fca_charges, local_cost_wo_vat_ait, vat_ait) ==
    LET rates == get_config_rates(config_dict)
    IN  ((foreign_spare_cost * (1 + rates.customs_duty_pct)) + freight_fca_charges)
            * exchange_rate(rates.fx_rates, currency)
        + local_cost_wo_vat_ait + vat_ait

(* An edit form that charges the duty on the freight as well.              *)
landed_total_cost_new_duty_on_freight(config_dict, currency, foreign_spare_cost, freight_fca_charges, local_cost_wo_vat_ait, vat_ait) ==
    LET rates == get_config_rates(config_dict)
    IN  ((foreign_spare_cost + freight_fca_charges) * (1 + rates.customs_duty_pct))
            * exchange_rate(rates.fx_rates, currency)
        + local_cost_wo_vat_ait + vat_ait

(* The calculation on the admin edit form.                                 *)
landed_total_cost_new(config_dict, currency, foreign_spare_cost, freight_fca_charges, local_cost_wo_vat_ait, vat_ait) ==
    LET rates == get_config_rates(config_dict)
    IN  ((foreign_spare_cost * (1 + rates.customs_duty_pct)) + freight_fca_charges)
            * exchange_rate(rates.fx_rates, currency)
        + local_cost_wo_vat_ait + vat_ait

(* ------------------- New Request (MN) page, app_v11 -------------------- *)
(* One run of the page script on "Submit Request".  The landed cost is the  *)
(* value the form computed from the cost inputs; a blank text input or an   *)
(* unselected selectbox is Blank.                                           *)
(* The INSERT parameters name customs_duty_rate (line 1234); the script     *)
(* binds customs_duty_pct (line 1077) and nothing called customs_duty_rate, *)
(* so building the tuple raises NameError before execute_query runs.        *)
customs_duty_rate_bound == FALSE

NextRequestId == IF requests = {} THEN 1
                 ELSE (CHOOSE i \in {r.id : r \in requests} :
                          \A r \in requests : r.id <= i) + 1

MissingFields(mn_no, dept, area) == mn_no = Blank \/ dept = Blank \/ area = Blank

(* A validator that runs the budget check ahead of the duplicate check.      *)
NewRequestOutcomeBudgetFirst(mn_no, dept, area, cost) ==
    LET budgets == load_area_dept(cache_load_data)
        df      == calculate_status(fill_area_dept(cache_load_data), cache_calculate_status)
        target_area == StatusRows(df, area)
    IN  IF budgets = {} THEN "NoBudgets"
        ELSE IF MissingFields(mn_no, dept, area) \/ cost <= 0 THEN "MissingOrInvalid"
        ELSE IF target_area = {} THEN "UnknownCostArea"
        ELSE IF \E row \in target_area : cost > row.remaining THEN "BudgetExceeded"
        ELSE IF \E r \in requests : r.mn_number = mn_no THEN "Duplicate"
        ELSE IF ~customs_duty_rate_bound THEN "NameError"
        ELSE "Saved"

NewRequestOutcome(mn_no, dept, area, cost) ==
    LET budgets == load_area_dept(cache_load_data)
        df      == calculate_status(fill_area_dept(cache_load_data), cache_calculate_status)
        target_area == StatusRows(df, area)
    IN  IF budgets = {} THEN "NoBudgets"
        ELSE IF MissingFields(mn_no, dept, area) \/ cost <= 0 THEN "MissingOrInvalid"
        ELSE IF \E r \in requests : r.mn_number = mn_no THEN "Duplicate"
        ELSE IF target_area = {} THEN "UnknownCostArea"
        ELSE IF \E row \in target_area : cost > row.remaining THEN "BudgetExceeded"
        ELSE IF ~customs_duty_rate_bound THEN "NameError"
        ELSE IF mn_unique /\ (\E r \in requests : r.mn_number = mn_no) THEN "IntegrityError"
        ELSE "Saved"

NewRequestRun(mn_no, dept, area, cost) ==
    /\ NextRequestId <= MaxReqId
    /\ dept \in {Blank} \cup {b.department : b \in load_area_dept(cache_load_data)}
    /\ area \in {Blank} \cup
            {b.cost_area : b \in {x \in load_area_dept(cache_load_data) : x.department = dept}}
    /\ \E outcome \in {NewRequestOutcome(mn_no, dept, area, cost)},
          c1 \in {fill_area_dept(cache_load_data)} :
        LET reached == outcome \in {"UnknownCostArea", "BudgetExceeded", "NameError",
                                    "IntegrityError", "Saved"}
        IN  /\ cache_load_data' =
                  IF reached THEN calculate_status_load(c1, cache_calculate_status) ELSE c1
            /\ cache_calculate_status' =
                  IF outcome = "Saved" THEN NoEntry
                  ELSE IF reached THEN <<calculate_status(c1, cache_calculate_status)>>
                  ELSE cache_calculate_status
            /\ requests' =
                  IF outcome = "Saved"
                  THEN requests \cup {[id |-> NextRequestId, mn_number |-> mn_no,
                                       cost_area |-> area, department |-> dept,
                                       estimated_cost |-> cost,
                                       landed_total_cost |-> cost, status |-> "Pending"]}
                  ELSE requests
            /\ last' = [op |-> "NewRequest", outcome |-> outcome, id |-> 0,
                        mn_number |-> mn_no, department |-> dept,
                        cost_area |-> area, cost |-> cost]
    /\ UNCHANGED <<budget_heads, mn_unique, submit_run, sideStore, balance_sheet, indentStore>>

(* The page run with the landed cost taken as given: the rates it was     *)
(* computed from play no part.                                             *)
NewRequest(mn_no, dept, area, cost) ==
    NewRequestRun(mn_no, dept, area, cost) /\ UNCHANGED configCaches

(* The same page run in two steps, as the script thread of a session takes *)
(* them: the validation down to the budget check, then the INSERT.  Script *)
(* threads of other sessions can run in between.                           *)
MaxRaceReqId == 4

SubmitRequestCheck(s, mn_no, dept, area, cost) ==
    /\ submit_run[s].pc \in {"idle", "done"}
    /\ dept \in {b.department : b \in load_area_dept(cache_load_data)}
    /\ area \in {b.cost_area : b \in {x \in load_area_dept(cache_load_data) : x.department = dept}}
    /\ \E verdict \in {NewRequestOutcome(mn_no, dept, area, cost)},
          c1 \in {fill_area_dept(cache_load_data)} :
        LET passed  == verdict \in {"NameError", "IntegrityError", "Saved"}
            reached == passed \/ verdict \in {"UnknownCostArea", "BudgetExceeded"}
        IN  /\ cache_load_data' =
                  IF reached THEN calculate_status_load(c1, cache_calculate_status) ELSE c1
            /\ cache_calculate_status' =
                  IF reached THEN <<calculate_status(c1, cache_calculate_status)>>
                  ELSE cache_calculate_status
            /\ submit_run' = [submit_run EXCEPT ![s] =
                  IF passed THEN [pc |-> "passed", mn_number |-> mn_no, cost_area |-> area,
                                  landed_total_cost |-> cost,
                                  seen |-> {r.id : r \in requests}]
                  ELSE Idle]
            /\ last' = [op |-> "SubmitRequestCheck",
                        outcome |-> IF passed THEN "Passed" ELSE verdict, id |-> s,
                        mn_number |-> mn_no, department |-> dept,
                        cost_area |-> area, cost |-> cost]
    /\ UNCHANGED <<budget_heads, requests, mn_unique, sideStore, balance_sheet, configCaches, indentStore>>

SubmitRequestInsert(s) ==
    /\ submit_run[s].pc = "passed"
    /\ NextRequestId <= MaxRaceReqId
    /\ \E outcome \in {IF ~customs_duty_rate_bound THEN "NameError"
                        ELSE IF mn_unique /\ (\E r \in requests :
                                                r.mn_number = submit_run[s].mn_number)
                             THEN "IntegrityError"
                        ELSE "Saved"} :
        /\ requests' =
              IF outcome = "Saved"
              THEN requests \cup {[id |-> NextRequestId,
                                   mn_number |-> submit_run[s].mn_number,
                                   cost_area |-> submit_run[s].cost_area,
                                   department |-> "D1",
                                   estimated_cost |-> submit_run[s].landed_total_cost,
                                   landed_total_cost |-> submit_run[s].landed_total_cost,
                                   status |-> "Pending"]}
              ELSE requests
        /\ cache_calculate_status' =
              IF outcome = "Saved" THEN NoEntry ELSE cache_calculate_status
        /\ submit_run' = [submit_run EXCEPT ![s].pc = "done"]
        /\ last' = [op |-> "SubmitRequestInsert", outcome |-> outcome, id |-> s,
                    mn_number |-> submit_run[s].mn_number, department |-> "D1",
                    cost_area |-> submit_run[s].cost_area,
                    cost |-> submit_run[s].landed_total_cost]
    /\ UNCHANGED <<budget_heads, mn_unique, sideStore, balance_sheet, configCaches, indentStore, cache_load_data>>

(* --------------- admin_edit_mn_form: save an edited request ------------- *)
(* One run of the Users & Access Control page with edit_id = id and the     *)
(* save button pressed.  The record being edited, the cost-area options     *)
(* and the ledger are all read through the caches.                          *)
EditOriginal(id) == load_request_by_id(cache_load_data, id)

(* The form renders only if the record's department is among the budget     *)
(* departments and its cost_area among that department's areas (the two     *)
(* list.index calls at lines 1879 and 1883 raise ValueError otherwise).     *)
EditAreaOptions(id) ==
    LET budgets == load_area_dept(fill_request_by_id(cache_load_data, id))
    IN  UNION {{b.cost_area : b \in {x \in budgets : x.department = o.department}}
               : o \in EditOriginal(id)}

EditBudgetOk(df, area, original_cost_area, original_landed_cost, cost_new) ==
    IF area # original_cost_area
    THEN \A row \in StatusRows(df, area) : cost_new <= row.remaining
    ELSE \A row \in StatusRows(df, original_cost_area) :
             cost_new <= row.remaining + original_landed_cost

AdminEditMNOutcome(id, mn_no_new, area, cost_new) ==
    LET c1 == fill_area_dept(fill_request_by_id(cache_load_data, id))
        df == calculate_status(c1, cache_calculate_status)
    IN  IF EditOriginal(id) = {} THEN "NotFound"
        ELSE LET o == CHOOSE x \in EditOriginal(id) : TRUE
             IN  IF o.cost_area \notin EditAreaOptions(id) THEN "ValueError"
                 ELSE IF mn_no_new = Blank \/ cost_new <= 0 THEN "MissingOrInvalid"
                 ELSE IF mn_no_new # o.mn_number
                         /\ (\E r \in requests : r.mn_number = mn_no_new /\ r.id # id)
                      THEN "Duplicate"
                 ELSE IF StatusRows(df, area) = {} THEN "UnknownCostArea"
                 ELSE IF ~EditBudgetOk(df, area, o.cost_area, o.landed_total_cost, cost_new)
                      THEN "BudgetExceeded"
                 ELSE IF mn_unique
                         /\ (\E r \in requests : r.mn_number = mn_no_new /\ r.id # id)
                      THEN "IntegrityError"
                 ELSE "Saved"

AdminEditMNRun(id, mn_no_new, area, cost_new) ==
    /\ id \in {r.id : r \in requests}
    /\ \E opts \in {EditAreaOptions(id)} :
          area \in opts \/ (opts = {} /\ area = Blank)
    /\ \E outcome \in {AdminEditMNOutcome(id, mn_no_new, area, cost_new)},
          c0 \in {fill_request_by_id(cache_load_data, id)} :
        LET c1      == fill_area_dept(c0)
            reached == outcome \in {"UnknownCostArea", "BudgetExceeded",
                                    "IntegrityError", "Saved"}
            o       == CHOOSE x \in EditOriginal(id) : TRUE
        IN  /\ cache_load_data' =
                  IF outcome = "NotFound" THEN c0
                  ELSE IF reached THEN calculate_status_load(c1, cache_calculate_status)
                  ELSE c1
            /\ cache_calculate_status' =
                  IF outcome = "Saved" THEN NoEntry
                  ELSE IF reached THEN <<calculate_status(c1, cache_calculate_status)>>
                  ELSE cache_calculate_status
            /\ requests' =
                  IF outcome = "Saved"
                  THEN {IF r.id = id
                        THEN [r EXCEPT !.mn_number = mn_no_new, !.cost_area = area,
                                       !.department = o.department,
                                       !.estimated_cost = cost_new,
                                       !.landed_total_cost = cost_new]
                        ELSE r : r \in requests}
                  ELSE requests
            /\ last' = [op |-> "AdminEditMN", outcome |-> outcome, id |-> id,
                        mn_number |-> mn_no_new, department |-> o.department,
                        cost_area |-> area, cost |-> cost_new]
    /\ UNCHANGED <<budget_heads, mn_unique, submit_run, sideStore, balance_sheet, indentStore>>

AdminEditMN(id, mn_no_new, area, cost_new) ==
    AdminEditMNRun(id, mn_no_new, area, cost_new) /\ UNCHANGED configCaches

(* ------------- admin_edit_budget_form: save an edited head -------------- *)
CurrentUtilization(df, area) ==
    IF StatusRows(df, area) = {} THEN 0
    ELSE (CHOOSE row \in StatusRows(df, area) : TRUE).utilized

AdminEditBudgetOutcome(id, dept_new, area_new, amount_new) ==
    LET c1   == fill_budget_by_id(cache_load_data, id)
        orig == load_budget_by_id(cache_load_data, id)
        df   == calculate_status(c1, cache_calculate_status)
        taken == \E b \in budget_heads : b.cost_area = area_new /\ b.id # id
    IN  IF orig = {} THEN "NotFound"
        ELSE LET original_area == (CHOOSE x \in orig : TRUE).cost_area
             IN  IF dept_new = Blank \/ area_new = Blank \/ amount_new <= 0
                 THEN "MissingOrInvalid"
                 ELSE IF area_new = original_area
                 THEN IF amount_new < CurrentUtilization(df, original_area)
                      THEN "BelowUtilization"
                      ELSE IF taken THEN "IntegrityError" ELSE "Saved"
                 ELSE IF taken THEN "Duplicate"
                 ELSE IF CurrentUtilization(df, original_area) > 0
                      THEN "NonZeroUtilization"
                 ELSE "Saved"

AdminEditBudget(id, dept_new, area_new, amount_new) ==
    /\ id \in {b.id : b \in budget_heads}
    /\ \E outcome \in {AdminEditBudgetOutcome(id, dept_new, area_new, amount_new)},
          c1 \in {fill_budget_by_id(cache_load_data, id)} :
        LET reached == outcome \notin {"NotFound", "MissingOrInvalid"}
        IN  /\ cache_load_data' =
                  IF reached THEN calculate_status_load(c1, cache_calculate_status) ELSE c1
            /\ cache_calculate_status' =
                  IF outcome = "Saved" THEN NoEntry
                  ELSE IF reached THEN <<calculate_status(c1, cache_calculate_status)>>
                  ELSE cache_calculate_status
            /\ budget_heads' =
                  IF outcome = "Saved"
                  THEN {IF b.id = id
                        THEN [b EXCEPT !.department = dept_new, !.cost_area = area_new,
                                       !.total_budget = amount_new]
                        ELSE b : b \in budget_heads}
                  ELSE budget_heads
            /\ last' = [op |-> "AdminEditBudget", outcome |-> outcome, id |-> id,
                        mn_number |-> Blank, department |-> dept_new,
                        cost_area |-> area_new, cost |-> amount_new]
    /\ UNCHANGED <<requests, mn_unique, submit_run, sideStore, balance_sheet, configCaches, indentStore>>

(* ---------------- Budget Setup & Import page (admin) -------------------- *)
(* budget_heads.id is INTEGER PRIMARY KEY: a new row gets the largest id    *)
(* plus one, and INSERT OR REPLACE deletes the row holding the cost_area    *)
(* and inserts a new one.                                                   *)
NextHeadId == IF budget_heads = {} THEN 1
              ELSE (CHOOSE i \in {b.id : b \in budget_heads} :
                       \A b \in budget_heads : b.id <= i) + 1

InsertOrReplaceHead(dept, area, amount) ==
    {b \in budget_heads : b.cost_area # area}
        \cup {[id |-> NextHeadId, department |-> dept, cost_area |-> area,
                total_budget |-> amount]}

(* manual_budget_form: "Manually Add/Update Budget Head".                   *)
ManualBudgetForm(dept, area, amount) ==
    /\ NextHeadId <= MaxHeadId
    /\ \E outcome \in {IF dept # Blank /\ area # Blank /\ amount > 0
                        THEN "Saved" ELSE "Warning"} :
        /\ budget_heads' = IF outcome = "Saved"
                           THEN InsertOrReplaceHead(dept, area, amount) ELSE budget_heads
        /\ cache_load_data' = IF outcome = "Saved" THEN EmptyCache ELSE cache_load_data
        /\ cache_load_config' = IF outcome = "Saved" THEN NoEntry ELSE cache_load_config
        /\ cache_calculate_status' =
              IF outcome = "Saved" THEN NoEntry ELSE cache_calculate_status
        /\ last' = [op |-> "ManualBudgetForm", outcome |-> outcome, id |-> 0,
                    mn_number |-> Blank, department |-> dept,
                    cost_area |-> area, cost |-> amount]
    /\ UNCHANGED <<requests, mn_unique, submit_run, sideStore, balance_sheet, cache_get_config_rates, indentStore>>

(* "Confirm and Import/Update Budgets" with a file of one row: the row is   *)
(* written as it stands; only calculate_status is cleared.                  *)
ImportBudgetFile(dept, area, amount) ==
    /\ NextHeadId <= MaxHeadId
    /\ budget_heads' = InsertOrReplaceHead(dept, area, amount)
    /\ cache_calculate_status' = NoEntry
    /\ last' = [op |-> "ImportBudgetFile", outcome |-> "Saved", id |-> 0,
                mn_number |-> Blank, department |-> dept,
                cost_area |-> area, cost |-> amount]
    /\ UNCHANGED <<requests, mn_unique, submit_run, sideStore, balance_sheet, configCaches, indentStore, cache_load_data>>

(* A bulk clear that forgets load_data.clear().                             *)
ClearAllBudgetDataKeepLoadData ==
    /\ budget_heads' = {}
    /\ cache_calculate_status' = NoEntry
    /\ last' = [NoOp EXCEPT !.op = "ClearAllBudgetData", !.outcome = "Saved"]
    /\ UNCHANGED <<requests, mn_unique, submit_run, sideStore, balance_sheet, configCaches, indentStore, cache_load_data>>

(* "CLEAR ALL BUDGET DATA": DELETE FROM budget_heads, then all caches.      *)
ClearAllBudgetData ==
    /\ budget_heads' = {}
    /\ cache_load_data' = EmptyCache
    /\ cache_load_config' = NoEntry
    /\ cache_calculate_status' = NoEntry
    /\ last' = [NoOp EXCEPT !.op = "ClearAllBudgetData", !.outcome = "Saved"]
    /\ UNCHANGED <<requests, mn_unique, submit_run, sideStore, balance_sheet, cache_get_config_rates, indentStore>>

(* ------------- indent line items of an existing bill (admin) ------------ *)
load_header_by_bill(c, b) ==
    IF c.header_by_bill[b] # NoEntry THEN c.header_by_bill[b][1]
    ELSE {h \in indent_purchase_record : h.bill_no = b}

load_goods_by_bill(c, b) ==
    IF c.goods_by_bill[b] # NoEntry THEN c.goods_by_bill[b][1]
    ELSE {g \in indent_goods_details : g.indent_no = b}

load_total_by_bill(c, b) ==
    IF c.total_by_bill[b] # NoEntry THEN c.total_by_bill[b][1]
    ELSE {h.total_bill_amount : h \in {x \in indent_purchase_record : x.bill_no = b}}

fill_header_by_bill(c, b) == [c EXCEPT !.header_by_bill[b] = <<load_header_by_bill(c, b)>>]
fill_goods_by_bill(c, b) == [c EXCEPT !.goods_by_bill[b] = <<load_goods_by_bill(c, b)>>]
fill_total_by_bill(c, b) == [c EXCEPT !.total_by_bill[b] = <<load_total_by_bill(c, b)>>]

(* The page loads header_df and goods_df before either form is handled.     *)
IndentPageLoad(c, b) == fill_goods_by_bill(fill_header_by_bill(c, b), b)

(* The indent tables as one connection sees them.  A handler writes through *)
(* a single connection and commits once; on any exception it calls          *)
(* conn.rollback(), which leaves the committed tables in place.             *)
IndentDb == [purchase |-> indent_purchase_record, goods |-> indent_goods_details,
             next_id |-> next_goods_id]

(* A connection whose writes are committed one by one.                      *)
conn_rollback_after_autocommit(committed, pending) == pending

conn_rollback(committed, pending) == committed

SetHeaderTotal(b, new_total_amount) ==
    {IF h.bill_no = b THEN [h EXCEPT !.total_bill_amount = new_total_amount] ELSE h
     : h \in indent_purchase_record}

(* add_goods_to_existing_bill_form: insert the item, re-read the header     *)
(* total through load_data, write total + amount, commit.                   *)
AddLineItemOutcome(b, qty, rate) ==
    IF load_header_by_bill(cache_load_data, b) = {} THEN "NotFound"
    ELSE IF qty <= 0 \/ rate < 0 THEN "Invalid"
    ELSE IF load_total_by_bill(IndentPageLoad(cache_load_data, b), b) = {} THEN "RolledBack"
    ELSE "Saved"

(* raised: the UPDATE or conn.commit() raises (sqlite3.OperationalError   *)
(* while another session holds a read lock on the file); the handler's      *)
(* except branch then rolls the INSERT back.                                *)
AddLineItem(b, qty, rate) ==
    /\ next_goods_id <= MaxGoods
    /\ \E raised \in BOOLEAN :
       \E outcome \in {IF AddLineItemOutcome(b, qty, rate) = "Saved" /\ raised
                        THEN "RolledBack" ELSE AddLineItemOutcome(b, qty, rate)},
          c1 \in {IndentPageLoad(cache_load_data, b)} :
        LET new_item_amount == qty * rate
            current_total   == CHOOSE t \in load_total_by_bill(c1, b) : TRUE
            inserted == [IndentDb EXCEPT
                           !.goods = @ \cup {[id |-> next_goods_id, indent_no |-> b,
                                               amount |-> new_item_amount]},
                           !.next_id = @ + 1]
            updated  == [inserted EXCEPT
                           !.purchase = SetHeaderTotal(b, current_total + new_item_amount)]
        IN  \E db \in {IF outcome = "Saved" THEN updated
                        ELSE IF outcome = "RolledBack" THEN conn_rollback(IndentDb, inserted)
                        ELSE IndentDb} :
            /\ cache_load_data' =
                  IF outcome \in {"Saved", "RolledBack"} THEN fill_total_by_bill(c1, b) ELSE c1
            /\ indent_goods_details' = db.goods
            /\ next_goods_id' = db.next_id
            /\ indent_purchase_record' = db.purchase
            /\ last' = [op |-> "AddLineItem", outcome |-> outcome, id |-> 0,
                        mn_number |-> Blank, department |-> Blank,
                        cost_area |-> b, cost |-> new_item_amount]
    /\ UNCHANGED <<ledgerStore, submit_run, sideStore, balance_sheet, configCaches, current_goods_data, cache_calculate_status>>

(* Delete Selected Line Item: the ids offered and the amount subtracted     *)
(* come from goods_df, the header total from load_data.                     *)
DeleteLineItemOutcome(b, line_id) ==
    IF load_header_by_bill(cache_load_data, b) = {} THEN "NotFound"
    ELSE IF load_total_by_bill(IndentPageLoad(cache_load_data, b), b) = {} THEN "RolledBack"
    ELSE "Saved"

DeleteLineItem(b, line_id) ==
    /\ line_id \in {g.id : g \in load_goods_by_bill(
                                    fill_header_by_bill(cache_load_data, b), b)}
    /\ \E raised \in BOOLEAN :
       \E outcome \in {IF DeleteLineItemOutcome(b, line_id) = "Saved" /\ raised
                        THEN "RolledBack" ELSE DeleteLineItemOutcome(b, line_id)},
          c1 \in {IndentPageLoad(cache_load_data, b)} :
        LET item_amount_deleted ==
                (CHOOSE g \in load_goods_by_bill(c1, b) : g.id = line_id).amount
            current_total == CHOOSE t \in load_total_by_bill(c1, b) : TRUE
            deleted == [IndentDb EXCEPT !.goods = {g \in @ : g.id # line_id}]
            updated == [deleted EXCEPT
                          !.purchase = SetHeaderTotal(b, current_total - item_amount_deleted)]
        IN  \E db \in {IF outcome = "Saved" THEN updated
                        ELSE IF outcome = "RolledBack" THEN conn_rollback(IndentDb, deleted)
                        ELSE IndentDb} :
            /\ cache_load_data' =
                  IF outcome \in {"Saved", "RolledBack"} THEN fill_total_by_bill(c1, b) ELSE c1
            /\ indent_goods_details' = db.goods
            /\ indent_purchase_record' = db.purchase
            /\ last' = [op |-> "DeleteLineItem", outcome |-> outcome, id |-> line_id,
                        mn_number |-> Blank, department |-> Blank,
                        cost_area |-> b, cost |-> item_amount_deleted]
    /\ UNCHANGED <<ledgerStore, submit_run, sideStore, balance_sheet, configCaches, next_goods_id, current_goods_data, cache_calculate_status>>

(* ------------- Admin edit of a purchase record header ------------------- *)
(* log_event opens its own connection and writes the event_log row while   *)
(* the handler's connection still holds its uncommitted writes: both       *)
(* branches call it before conn.commit().                                  *)
log_event_before_commit == TRUE

(* The cached goods_df rows re-inserted under the new bill number; the     *)
(* autoincrement column numbers them in the order they are iterated.       *)
ReinsertGoods(goods_df, bill_no_new, first_id) ==
    {[id |-> first_id + Cardinality({r2 \in goods_df : r2.id < r.id}),
      indent_no |-> bill_no_new, amount |-> r.amount] : r \in goods_df}

AdminEditIndentHeaderOutcome(b, bill_no_new) ==
    IF load_header_by_bill(cache_load_data, b) = {} THEN "NotFound"
    ELSE IF bill_no_new = "" THEN "MissingFields"
    ELSE IF bill_no_new # b /\ \E h \in indent_purchase_record : h.bill_no = bill_no_new
         THEN "Duplicate"
    ELSE IF log_event_before_commit THEN "RolledBack"
    ELSE "Saved"

(* admin_edit_indent_header_form save; b is the edit id, which is also     *)
(* original_header_data['bill_no'].                                        *)
AdminEditIndentHeader(b, bill_no_new) ==
    \E outcome \in {AdminEditIndentHeaderOutcome(b, bill_no_new)},
       c1 \in {IndentPageLoad(cache_load_data, b)} :
        LET original_header_data == CHOOSE h \in load_header_by_bill(c1, b) : TRUE
            goods_df == load_goods_by_bill(c1, b)
            renamed  == [purchase |->
                            {h \in indent_purchase_record : h.bill_no # b} \cup
                            {[bill_no |-> bill_no_new,
                              total_bill_amount |-> original_header_data.total_bill_amount]},
                         goods |->
                            {g \in indent_goods_details : g.indent_no # b} \cup
                            ReinsertGoods(goods_df, bill_no_new, next_goods_id),
                         next_id |-> next_goods_id + Cardinality(goods_df)]
            pending  == IF bill_no_new # b THEN renamed ELSE IndentDb
        IN  /\ outcome \in {"Saved", "RolledBack"} =>
                  next_goods_id + Cardinality(goods_df) <= MaxGoods + 1
            /\ \E db \in {IF outcome = "Saved" THEN pending
                           ELSE IF outcome = "RolledBack" THEN conn_rollback(IndentDb, pending)
                           ELSE IndentDb} :
                /\ indent_purchase_record' = db.purchase
                /\ indent_goods_details' = db.goods
                /\ next_goods_id' = db.next_id
            /\ cache_load_data' = c1
            /\ last' = [op |-> "AdminEditIndentHeader", outcome |-> outcome, id |-> 0,
                        mn_number |-> b, department |-> Blank,
                        cost_area |-> bill_no_new, cost |-> 0]
            /\ UNCHANGED <<ledgerStore, submit_run, sideStore, balance_sheet, configCaches, current_goods_data, cache_calculate_status>>

(* ------------- Indent & Purchase Record page: a new bill ---------------- *)
(* str.strip() on the texts a bill number can be typed as.                  *)
strip(text) == IF text = " " THEN ""
               ELSE IF text = "B1 " THEN "B1"
               ELSE text

RECURSIVE SumSeq(_)
SumSeq(q) == IF q = <<>> THEN 0 ELSE Head(q) + SumSeq(Tail(q))

(* add_goods_item: "Add Goods" appends to the session's list.               *)
AddGoodsItem(qty, rate) ==
    /\ Len(current_goods_data) < MaxSessionGoods
    /\ \E outcome \in {IF qty <= 0 \/ rate < 0 THEN "Warning" ELSE "Added"} :
        /\ current_goods_data' = IF outcome = "Added"
                                 THEN Append(current_goods_data, qty * rate)
                                 ELSE current_goods_data
        /\ last' = [op |-> "AddGoodsItem", outcome |-> outcome, id |-> 0,
                    mn_number |-> Blank, department |-> Blank,
                    cost_area |-> Blank, cost |-> qty * rate]
    /\ UNCHANGED <<ledgerStore, submit_run, sideStore, balance_sheet, configCaches, indent_purchase_record, indent_goods_details,
                   next_goods_id, cache_load_data, cache_calculate_status>>

(* final_indent_form: "Save Final Purchase Record".  The duplicate check    *)
(* looks up the text as typed; the header and the items are keyed by the    *)
(* stripped text, and a primary-key clash on INSERT is caught and rolled    *)
(* back.                                                                    *)
FinalIndentOutcome(bill_no, payment_mode) ==
    IF current_goods_data = <<>> THEN "NoGoods"
    ELSE IF bill_no = "" \/ payment_mode = Blank THEN "MissingFields"
    ELSE IF SumSeq(current_goods_data) <= 0 THEN "NonPositiveTotal"
    ELSE IF \E h \in indent_purchase_record : h.bill_no = bill_no THEN "Duplicate"
    ELSE IF \E h \in indent_purchase_record : h.bill_no = strip(bill_no) THEN "RolledBack"
    ELSE "Saved"

(* Line items keyed by the header's Indent No. field, which is free text   *)
(* and blank by default, instead of by the bill number.                    *)
NewLineItemsByIndentNoField(pk_identifier) ==
    {[id |-> next_goods_id + i - 1, indent_no |-> Blank,
      amount |-> current_goods_data[i]] : i \in 1..Len(current_goods_data)}

NewLineItems(pk_identifier) ==
    {[id |-> next_goods_id + i - 1, indent_no |-> pk_identifier,
      amount |-> current_goods_data[i]] : i \in 1..Len(current_goods_data)}

FinalIndentForm(bill_no, payment_mode) ==
    /\ next_goods_id + Len(current_goods_data) - 1 <= MaxGoods
    /\ \E outcome \in {FinalIndentOutcome(bill_no, payment_mode)} :
        LET pk_identifier == strip(bill_no)
            total_amount  == SumSeq(current_goods_data)
        IN  /\ indent_purchase_record' =
                  IF outcome = "Saved"
                  THEN indent_purchase_record \cup
                         {[bill_no |-> pk_identifier, total_bill_amount |-> total_amount]}
                  ELSE indent_purchase_record
            /\ indent_goods_details' =
                  IF outcome = "Saved"
                  THEN indent_goods_details \cup NewLineItems(pk_identifier)
                  ELSE indent_goods_details
            /\ next_goods_id' = IF outcome = "Saved"
                                THEN next_goods_id + Len(current_goods_data)
                                ELSE next_goods_id
            /\ current_goods_data' = IF outcome = "Saved" THEN <<>> ELSE current_goods_data
            /\ last' = [op |-> "FinalIndentForm", outcome |-> outcome, id |-> 0,
                        mn_number |-> Blank, department |-> payment_mode,
                        cost_area |-> bill_no, cost |-> total_amount]
    /\ UNCHANGED <<ledgerStore, submit_run, sideStore, balance_sheet, configCaches, cache_load_data, cache_calculate_status>>

(* ------------------- readers and cache housekeeping --------------------- *)
(* Budget Balance Sheet page: a call of calculate_status.                   *)
BalanceSheetRun ==
    /\ cache_load_data' = calculate_status_load(cache_load_data, cache_calculate_status)
    /\ cache_calculate_status' = <<df_status>>
    /\ last' = [NoOp EXCEPT !.op = "ViewBalanceSheet", !.outcome = "Shown"]
    /\ UNCHANGED <<ledgerStore, submit_run, sideStore, configCaches, indentStore>>

ViewBalanceSheet == BalanceSheetRun /\ UNCHANGED balance_sheet

(* load_data entries live for ttl = 600 seconds: after ten minutes without *)
(* a page run every entry has expired.  calculate_status has no ttl.        *)
TtlExpire ==
    /\ cache_load_data # EmptyCache \/ cache_load_config # NoEntry
    /\ cache_load_data' = EmptyCache
    /\ cache_load_config' = NoEntry
    /\ last' = [NoOp EXCEPT !.op = "TtlExpire"]
    /\ UNCHANGED <<ledgerStore, submit_run, sideStore, balance_sheet, cache_get_config_rates, indentStore, cache_calculate_status>>

(* A successful login, in any session, clears the calculate_status and     *)
(* get_config_rates caches.                                                *)
Login ==
    /\ cache_calculate_status # NoEntry \/ cache_get_config_rates # NoEntry
    /\ cache_calculate_status' = NoEntry
    /\ cache_get_config_rates' = NoEntry
    /\ last' = [NoOp EXCEPT !.op = "Login"]
    /\ UNCHANGED <<ledgerStore, submit_run, sideStore, balance_sheet, cache_load_config, indentStore, cache_load_data>>

(* ------------------------- specifications ------------------------------- *)
CostInputs == 0..MaxCost

(* Spec: the budget gate.  Submissions carry an unused mn_number, edits     *)
(* keep the record's mn_number (the form's default) and change cost and     *)
(* cost area.                                                               *)
SubmitNewRequest ==
    \E dept \in Depts, area \in AreaNames, cost \in CostInputs :
        NewRequest("M3", dept, area, cost)

SaveEditedMN ==
    \E id \in ReqIds, area \in AreaNames, cost_new \in CostInputs :
        \E o \in EditOriginal(id) : AdminEditMN(id, o.mn_number, area, cost_new)

Next ==
    \/ SubmitNewRequest
    \/ SaveEditedMN
    \/ ViewBalanceSheet
    \/ TtlExpire
    \/ Login

Init == InitLedger /\ mn_unique /\ InitIndentEmpty

Spec == Init /\ [][Next]_vars

(* SpecMn: the business key.  Submissions and edits range over every        *)
(* mn_number, blank included; edits keep the record's cost and cost area.   *)
(* The shapes of a submission: complete and affordable, a mandatory field   *)
(* left blank, a zero cost, a cost above every budget.                      *)
SubmissionShapes ==
    {[department |-> "D1",  cost_area |-> "A",   cost |-> 1],
     [department |-> Blank, cost_area |-> Blank, cost |-> 1],
     [department |-> "D1",  cost_area |-> "A",   cost |-> 0],
     [department |-> "D1",  cost_area |-> "A",   cost |-> MaxBudget + 1]}

SubmitNewRequestMn ==
    \E mn_no \in MNs \cup {Blank}, f \in SubmissionShapes :
        NewRequest(mn_no, f.department, f.cost_area, f.cost)

SaveEditedMNMn ==
    \E id \in ReqIds, mn_no_new \in MNs \cup {Blank} :
        \E o \in EditOriginal(id) :
            AdminEditMN(id, mn_no_new, o.cost_area, o.landed_total_cost)

NextMn ==
    \/ SubmitNewRequestMn
    \/ SaveEditedMNMn
    \/ TtlExpire

InitMn == InitLedger /\ InitIndentEmpty

SpecMn == InitMn /\ [][NextMn]_vars

(* SpecBudget: budget head edits next to requests that move between areas.  *)
RenameBudget ==
    \E id \in HeadIds, area_new \in AreaNames :
        \E o \in load_budget_by_id(cache_load_data, id) :
            AdminEditBudget(id, o.department, area_new, o.total_budget)

MoveMN ==
    \E id \in ReqIds, area \in AreaNames :
        \E o \in EditOriginal(id) :
            AdminEditMN(id, o.mn_number, area, o.landed_total_cost)

NextBudget ==
    \/ MoveMN
    \/ RenameBudget
    \/ TtlExpire

SpecBudget == Init /\ [][NextBudget]_vars

(* SpecCascade: budget head edits that change the department or the name,   *)
(* the approved amount kept (the form's default).                           *)
EditBudgetHead ==
    \E id \in HeadIds, dept_new \in Depts, area_new \in AreaNames :
        \E o \in load_budget_by_id(cache_load_data, id) :
            AdminEditBudget(id, dept_new, area_new, o.total_budget)

NextCascade ==
    \/ EditBudgetHead
    \/ ViewBalanceSheet
    \/ TtlExpire

SpecCascade == Init /\ [][NextCascade]_vars

(* SpecSetup: every path that writes total_budget.                          *)
ManuallyAddUpdateBudgetHead ==
    \E amount \in {0, 1, MaxBudget} : ManualBudgetForm("D1", "A", amount)

ConfirmAndImportBudgets ==
    \E amount \in {1, MaxBudget} : ImportBudgetFile("D1", "B", amount)

SaveEditedBudgetAmount ==
    \E id \in HeadIds, amount_new \in {1, MaxBudget} :
        \E o \in load_budget_by_id(cache_load_data, id) :
            AdminEditBudget(id, o.department, o.cost_area, amount_new)

NextSetup ==
    \/ ManuallyAddUpdateBudgetHead
    \/ ConfirmAndImportBudgets
    \/ SaveEditedBudgetAmount
    \/ TtlExpire

SpecSetup == Init /\ [][NextSetup]_vars

(* SpecClear: the bulk clear next to the create page, the balance sheet and *)
(* the forms that add a budget head again.                                  *)
(* A visit of the create page: with budget heads on offer the form is       *)
(* submitted for area A, with none the page has no selection to submit.     *)
SubmitAffordableRequest ==
    \E f \in {[department |-> "D1", cost_area |-> "A"],
               [department |-> Blank, cost_area |-> Blank]} :
        NewRequest("M3", f.department, f.cost_area, 1)

AddBudgetHeadAgain ==
    \/ \E amount \in {0, MaxBudget} : ManualBudgetForm("D1", "A", amount)
    \/ ImportBudgetFile("D1", "A", MaxBudget)

NextClear ==
    \/ ClearAllBudgetData
    \/ AddBudgetHeadAgain
    \/ SubmitAffordableRequest
    \/ ViewBalanceSheet
    \/ TtlExpire

SpecClear == Init /\ [][NextClear]_vars

(* SpecIndent: line items of one existing bill.                             *)
InitIndent ==
    /\ InitSide
    /\ \E a \in 1..MaxQty :
          /\ indent_purchase_record = {[bill_no |-> "B1", total_bill_amount |-> a]}
          /\ indent_goods_details = {[id |-> 1, indent_no |-> "B1", amount |-> a]}
    /\ next_goods_id = 2
    /\ current_goods_data = <<>>
    /\ budget_heads = InitHeads
    /\ requests = {}
    /\ mn_unique = TRUE
    /\ cache_load_data = EmptyCache
    /\ cache_calculate_status = NoEntry
    /\ last = NoOp

AddGoodsToExistingBill ==
    \E b \in Bills, qty \in 0..MaxQty, rate \in 0..1 : AddLineItem(b, qty, rate)

DeleteSelectedLineItem ==
    \E b \in Bills, line_id \in 1..MaxGoods : DeleteLineItem(b, line_id)

NextIndent ==
    \/ AddGoodsToExistingBill
    \/ DeleteSelectedLineItem
    \/ TtlExpire

SpecIndent == InitIndent /\ [][NextIndent]_vars

(* SpecHeader: the admin edit of one purchase record, header and lines.    *)
EditedBillNos == {"B1", "B2", ""}

SaveEditedHeaderDetails ==
    \E b \in Bills, bill_no_new \in EditedBillNos : AdminEditIndentHeader(b, bill_no_new)

NextHeader ==
    \/ SaveEditedHeaderDetails
    \/ AddGoodsToExistingBill
    \/ DeleteSelectedLineItem
    \/ TtlExpire

SpecHeader == InitIndent /\ [][NextHeader]_vars

(* SpecBill: entering new bills on the Indent & Purchase Record page.       *)
BillTexts == {"B1", "B1 ", "B2", " ", ""}

AddGoods ==
    \E qty \in 0..1, rate \in 0..MaxQty : AddGoodsItem(qty, rate)

SaveFinalPurchaseRecord ==
    \E bill_no \in BillTexts, payment_mode \in {"Cash", Blank} :
        FinalIndentForm(bill_no, payment_mode)

NextBill ==
    \/ AddGoods
    \/ SaveFinalPurchaseRecord

SpecBill == InitIndent /\ [][NextBill]_vars

(* SpecPurchase: every way a purchase record and its line items are        *)
(* written: new bills, header edits, line-item adds and deletes.           *)
(* Items of amount 1; the bill numbers typed are a new one, an existing    *)
(* one with a trailing blank and a single blank.                           *)
AddOneGoodsItem == AddGoodsItem(1, 1)

SavePurchaseRecord ==
    \E bill_no \in {"B2", "B1 ", " "} : FinalIndentForm(bill_no, "Cash")

RenumberBill ==
    \E b \in Bills, bill_no_new \in Bills : AdminEditIndentHeader(b, bill_no_new)

AddOneLineItem == \E b \in Bills : AddLineItem(b, 1, 1)

NextPurchase ==
    \/ AddOneGoodsItem
    \/ SavePurchaseRecord
    \/ RenumberBill
    \/ AddOneLineItem
    \/ DeleteSelectedLineItem
    \/ TtlExpire

SpecPurchase == InitIndent /\ [][NextPurchase]_vars

(* SpecRace: two sessions submitting requests for department D1.           *)
RaceMNs == {"M2", "M3", "M4"}

RaceCheck ==
    \E s \in Sessions, mn_no \in RaceMNs, area \in {"A", "B"}, cost \in 1..MaxCost :
        SubmitRequestCheck(s, mn_no, "D1", area, cost)

RaceInsert == \E s \in Sessions : SubmitRequestInsert(s)

NextRace ==
    \/ RaceCheck
    \/ RaceInsert
    \/ TtlExpire

SpecRace == InitMn /\ [][NextRace]_vars

(* SpecCost: requests submitted and edited with their cost inputs.         *)
(* The values the two forms can show, over every configuration, currency   *)
(* and cost input.                                                         *)
CreateFormCosts ==
    {landed_total_cost(config_dict, currency, fsc, ffc, lcwa, va)
     : config_dict \in ConfigDicts, currency \in Currencies,
       fsc \in 0..MaxInput, ffc \in 0..MaxInput,
       lcwa \in 0..MaxInput, va \in 0..MaxInput}

EditFormCosts ==
    {landed_total_cost_new(config_dict, currency, fsc, ffc, lcwa, va)
     : config_dict \in ConfigDicts, currency \in Currencies,
       fsc \in 0..MaxInput, ffc \in 0..MaxInput,
       lcwa \in 0..MaxInput, va \in 0..MaxInput}

SubmitRequestWithCosts ==
    \E cost \in CreateFormCosts : NewRequest("M3", "D1", "A", cost)

SaveEditedMNWithCosts ==
    \E cost_new \in EditFormCosts :
        \E o \in EditOriginal(1) : AdminEditMN(1, o.mn_number, o.cost_area, cost_new)

NextCost ==
    \/ SubmitRequestWithCosts
    \/ SaveEditedMNWithCosts
    \/ TtlExpire

SpecCost == Init /\ [][NextCost]_vars

(* ----------------------- financial configuration ----------------------- *)
(* load_data("SELECT key, value FROM exchange_config"): the rows as the     *)
(* ttl cache holds them, or the stored rows on a miss.                      *)
load_config == IF cache_load_config = NoEntry THEN exchange_config ELSE cache_load_config[1]

(* get_config_rates(): the configuration its cached result was built from,  *)
(* or, on a miss, the one load_data returns.                                *)
config_rates_read ==
    IF cache_get_config_rates = NoEntry THEN load_config ELSE cache_get_config_rates[1]

(* The two caches after a call of get_config_rates(); page_loads_config     *)
(* tells whether the page has itself run the config query before.           *)
GetConfigRates(page_loads_config) ==
    /\ cache_load_config' =
          IF page_loads_config \/ cache_get_config_rates = NoEntry
          THEN <<load_config>> ELSE cache_load_config
    /\ cache_get_config_rates' = <<config_rates_read>>

(* A configuration save that also recomputes the landed cost of every       *)
(* stored request at the new duty.                                          *)
SaveConfigurationRecosting(updates) ==
    /\ role = "administrator"
    /\ updates \in ConfigDicts
    /\ cache_load_config' = <<load_config>>
    /\ exchange_config' = updates
    /\ cache_get_config_rates' = NoEntry
    /\ requests' = {[r EXCEPT !.landed_total_cost =
                         r.estimated_cost * (1 + updates.CustomsDuty_pct)] : r \in requests}
    /\ last' = [NoOp EXCEPT !.op = "SaveConfiguration", !.outcome = "Saved"]
    /\ UNCHANGED <<budget_heads, mn_unique, cache_load_data, cache_calculate_status, submit_run, role, users,
                   lc_po_tracker, balance_sheet, indentStore>>

(* One run of the configuration page with Save Configuration pressed: the   *)
(* page reads the rows to fill the form, the six rows are replaced and      *)
(* committed, and the get_config_rates cache is cleared.                    *)
SaveConfiguration(updates) ==
    /\ role = "administrator"
    /\ updates \in ConfigDicts
    /\ cache_load_config' = <<load_config>>
    /\ exchange_config' = updates
    /\ cache_get_config_rates' = NoEntry
    /\ last' = [NoOp EXCEPT !.op = "SaveConfiguration", !.outcome = "Saved"]
    /\ UNCHANGED <<ledgerStore, cache_load_data, cache_calculate_status, submit_run, role, users, lc_po_tracker,
                   balance_sheet, indentStore>>

(* The create page and the edit form with the cost computed from the rates  *)
(* get_config_rates() returns to that run.                                  *)
NewRequestAtRates(mn_no, dept, area, currency, foreign_spare_cost) ==
    /\ NewRequestRun(mn_no, dept, area,
                     landed_total_cost(config_rates_read, currency, foreign_spare_cost, 0, 0, 0))
    /\ GetConfigRates(FALSE)

AdminEditMNAtRates(id, mn_no_new, area, currency, foreign_spare_cost) ==
    /\ role = "administrator"
    /\ AdminEditMNRun(id, mn_no_new, area,
                      landed_total_cost_new(config_rates_read, currency, foreign_spare_cost, 0, 0, 0))
    /\ GetConfigRates(TRUE)

(* SpecConfig: the configuration saved while requests are submitted and     *)
(* edited at the configured rates.                                          *)
SaveSomeConfiguration == \E updates \in ConfigDicts : SaveConfiguration(updates)

SubmitAtRates ==
    \E currency \in {"BDT", "USD"} : NewRequestAtRates("M3", "D1", "A", currency, MaxInput)

SaveEditAtRates ==
    \E currency \in {"BDT", "USD"}, o \in EditOriginal(1) :
        AdminEditMNAtRates(1, o.mn_number, o.cost_area, currency, MaxInput)

NextConfig ==
    \/ SaveSomeConfiguration
    \/ SubmitAtRates
    \/ SaveEditAtRates
    \/ ViewBalanceSheet
    \/ TtlExpire
    \/ Login

SpecConfig == Init /\ [][NextConfig]_vars

(* ------------------- workflow status and LC/PO tracker ------------------ *)
workflow_statuses ==
    {"Pending", "Approved by SRPM", "Approved by AD", "Finance Approved", "Rejected",
     "PO Issued", "Completed"}

(* A status tool that releases the budget of a rejected request.  *)
StatusUpdateReleasingRejected(selected_id, new_status) ==
    /\ role = "administrator"
    /\ new_status \in workflow_statuses
    /\ selected_id \in {r.id : r \in requests}
    /\ requests' = {IF r.id = selected_id
                    THEN [r EXCEPT !.status = new_status,
                                   !.landed_total_cost =
                                       IF new_status = "Rejected" THEN 0 ELSE @]
                    ELSE r : r \in requests}
    /\ cache_calculate_status' = NoEntry
    /\ last' = [NoOp EXCEPT !.op = "StatusUpdate", !.outcome = "Saved", !.id = selected_id]
    /\ UNCHANGED <<budget_heads, mn_unique, cache_load_data, submit_run, sideStore,
                   configCaches, balance_sheet, indentStore>>

(* Status Update Tool on the View & Filter page: the page loads the budget  *)
(* frame, the rates, the ledger and the requests frame through the caches;  *)
(* the request is picked from that frame; the status is written by id and   *)
(* calculate_status is cleared.                                             *)
StatusUpdate(selected_id, new_status) ==
    /\ role = "administrator"
    /\ new_status \in workflow_statuses
    /\ \E c1 \in {fill_requests_all(calculate_status_load(fill_area_dept(cache_load_data),
                                                         cache_calculate_status))} :
        /\ selected_id \in {r.id : r \in load_requests_all(c1)}
        /\ cache_load_data' = c1
    /\ GetConfigRates(FALSE)
    /\ requests' = {IF r.id = selected_id THEN [r EXCEPT !.status = new_status] ELSE r
                    : r \in requests}
    /\ cache_calculate_status' = NoEntry
    /\ last' = [NoOp EXCEPT !.op = "StatusUpdate", !.outcome = "Saved", !.id = selected_id]
    /\ UNCHANGED <<budget_heads, mn_unique, submit_run, sideStore, balance_sheet, indentStore>>

(* load_data of the tracker page: the mn_numbers of the requests at         *)
(* 'Finance Approved' or 'PO Issued', and the status of the first request   *)
(* with a given mn_number ("None" without one).                             *)
load_approved_requests(c) ==
    IF c.approved_requests # NoEntry THEN c.approved_requests[1]
    ELSE {r.mn_number : r \in {x \in requests : x.status \in {"Finance Approved", "PO Issued"}}}

load_status_by_mn(c, m) ==
    IF c.status_by_mn[m] # NoEntry THEN c.status_by_mn[m][1]
    ELSE IF \E r \in requests : r.mn_number = m
         THEN (CHOOSE r \in requests :
                  r.mn_number = m /\ \A x \in requests : x.mn_number = m => r.id <= x.id).status
         ELSE "None"

(* LC/PO tracker page with Update LC/PO & Payment Data pressed for          *)
(* selected_mn, one of the listed requests: the status becomes 'PO Issued'  *)
(* for the rows of that mn_number if an LC/PO number was entered and the    *)
(* status read is 'Finance Approved'; the tracker row is inserted or        *)
(* replaced.  Every read goes through load_data.                            *)
TrackerSave(selected_mn, lc_po_nr) ==
    /\ role = "administrator"
    /\ \E c1 \in {[cache_load_data EXCEPT !.approved_requests =
                                       <<load_approved_requests(cache_load_data)>>]},
          current_mn_status \in {load_status_by_mn(cache_load_data, selected_mn)} :
        /\ selected_mn \in load_approved_requests(c1)
        /\ cache_load_data' = [c1 EXCEPT !.status_by_mn[selected_mn] = <<current_mn_status>>]
        /\ requests' =
              IF lc_po_nr # Blank /\ current_mn_status = "Finance Approved"
              THEN {IF r.mn_number = selected_mn THEN [r EXCEPT !.status = "PO Issued"] ELSE r
                    : r \in requests}
              ELSE requests
    /\ lc_po_tracker' = {t \in lc_po_tracker : t.mn_number # selected_mn}
                            \cup {[mn_number |-> selected_mn, lc_po_nr |-> lc_po_nr]}
    /\ last' = [NoOp EXCEPT !.op = "TrackerSave", !.outcome = "Saved", !.mn_number = selected_mn]
    /\ UNCHANGED <<budget_heads, mn_unique, cache_calculate_status, submit_run, role, users,
                   exchange_config, configCaches, balance_sheet, indentStore>>

(* SpecStatus: statuses set by the Status Update Tool, the first request    *)
(* over all seven, the second rejected and reset, while the cost of the     *)
(* first request is edited and the ledger is viewed.                        *)
LcPoNumbers == {Blank, "PO1"}

ApplyStatusChange ==
    \/ \E new_status \in workflow_statuses : StatusUpdate(1, new_status)
    \/ \E new_status \in {"Pending", "Rejected"} : StatusUpdate(2, new_status)

SaveEditedCost ==
    \E o \in EditOriginal(1) : AdminEditMN(1, o.mn_number, o.cost_area, MaxCost)

NextStatus ==
    \/ ApplyStatusChange
    \/ SaveEditedCost
    \/ ViewBalanceSheet
    \/ TtlExpire

SpecStatus == Init /\ [][NextStatus]_vars

(* SpecTracker: tracker saves while the first request is approved or        *)
(* rejected and its mn_number is edited.                                    *)
ApproveOrReject ==
    \E new_status \in {"Finance Approved", "Rejected"} : StatusUpdate(1, new_status)

UpdateLcPoData ==
    \E selected_mn \in MNs, lc_po_nr \in LcPoNumbers : TrackerSave(selected_mn, lc_po_nr)

SaveEditedMnNumber ==
    \E mn_no_new \in {"M1", "M3"}, o \in EditOriginal(1) :
        AdminEditMN(1, mn_no_new, o.cost_area, o.landed_total_cost)

NextTracker ==
    \/ ApproveOrReject
    \/ UpdateLcPoData
    \/ SaveEditedMnNumber
    \/ TtlExpire

SpecTracker == Init /\ [][NextTracker]_vars

(* ------------------------- sessions and roles --------------------------- *)
(* init_db runs at the top of every script run of every session: the tables *)
(* and default configuration rows are created if missing and the password   *)
(* of the user 'admin' is set to the default.                               *)
init_db ==
    /\ users' = IF \E u \in users : u.username = "admin"
                THEN {IF u.username = "admin"
                      THEN [u EXCEPT !.password_hash = "admin1024098"] ELSE u : u \in users}
                ELSE users \cup {[username |-> "admin", password_hash |-> "admin1024098",
                                  role |-> "administrator"]}
    /\ last' = [NoOp EXCEPT !.op = "init_db"]
    /\ UNCHANGED <<ledgerStore, cache_load_data, cache_calculate_status, submit_run, role,
                   lc_po_tracker, exchange_config, configCaches, balance_sheet, indentStore>>

(* login_page with a stored username and its password: the session takes    *)
(* the user's role; calculate_status and get_config_rates are cleared.      *)
LoginAs(username) ==
    /\ role = "None"
    /\ \E user_data \in {u \in users : u.username = username} :
          role' = user_data.role
    /\ cache_calculate_status' = NoEntry
    /\ cache_get_config_rates' = NoEntry
    /\ last' = [NoOp EXCEPT !.op = "Login"]
    /\ UNCHANGED <<ledgerStore, cache_load_data, submit_run, users, lc_po_tracker,
                   exchange_config, cache_load_config, balance_sheet, indentStore>>

logout ==
    /\ role # "None"
    /\ role' = "None"
    /\ last' = [NoOp EXCEPT !.op = "logout"]
    /\ UNCHANGED <<ledgerStore, cache_load_data, cache_calculate_status, submit_run, users,
                   lc_po_tracker, exchange_config, configCaches, balance_sheet, indentStore>>

(* The first three pages are in the menu of every logged-in user; the      *)
(* others require the role 'administrator' in the menu and again in their   *)
(* first statement.  Their page runs are the actions above, which model an  *)
(* administrator's session.                                                 *)
logged_in == role # "None"

(* Pages guarded by the login only.                                        *)
AdministratorPageUnchecked(page_run) == logged_in /\ page_run

AdministratorPage(page_run) == role = "administrator" /\ page_run

(* Create New User on the Users & Access Control page; username is UNIQUE.  *)
CreateUser(new_username, new_role) ==
    /\ users' = IF \E u \in users : u.username = new_username THEN users
                ELSE users \cup {[username |-> new_username, password_hash |-> "pw",
                                  role |-> new_role]}
    /\ last' = [NoOp EXCEPT !.op = "CreateUser",
                            !.outcome = IF users' = users THEN "IntegrityError" ELSE "Saved"]
    /\ UNCHANGED <<ledgerStore, cache_load_data, cache_calculate_status, submit_run, role,
                   lc_po_tracker, exchange_config, configCaches, balance_sheet, indentStore>>

(* SpecAccess: one browser session that logs in and out as the stored users *)
(* and runs the pages its role reaches.                                     *)
NextAccess ==
    \/ init_db
    \/ \E username \in {"admin", "u1"} : LoginAs(username)
    \/ logout
    \/ logged_in /\ NewRequest("M3", "D1", "A", 1)
    \/ AdministratorPage(TrackerSave("M1", "PO1"))
    \/ AdministratorPage(StatusUpdate(1, "Finance Approved"))
    \/ AdministratorPage(SaveEditedCost)
    \/ AdministratorPage(AdminEditBudget(2, "D1", "C", MaxBudget))
    \/ AdministratorPage(SaveConfiguration([DefaultConfig EXCEPT !.CustomsDuty_pct = MaxDuty]))
    \/ AdministratorPage(AddOneGoodsItem)
    \/ AdministratorPage(FinalIndentForm("B2", "Cash"))
    \/ AdministratorPage(CreateUser("u1", "user"))

SpecAccess == Init /\ [][NextAccess]_vars

(* SpecLedger: the ledger read repeatedly after the last mutation.  The    *)
(* page shows the rows calculate_status returns to it; the grand totals are *)
(* sums over those rows.  Requests are moved between cost areas only before *)
(* the first recorded read; afterwards time passes and users log in.        *)
ReadBudgetLedger == BalanceSheetRun /\ balance_sheet' = <<df_status>>

MoveBeforeFirstRead == balance_sheet = NoEntry /\ MoveMN

NextLedger ==
    \/ MoveBeforeFirstRead
    \/ ReadBudgetLedger
    \/ TtlExpire
    \/ Login

SpecLedger == Init /\ [][NextLedger]_vars

(* ------------------------------ claims --------------------------------- *)
(* C1: the ledger calculate_status returns reports, for every budget head,  *)
(* the sum of landed_total_cost of the requests now stored in its cost_area *)
(* as utilized and total_budget minus that sum as remaining; it is never    *)
(* older than the last committed mutation.                                  *)
LedgerMatchesStore == df_status = TrueStatus

(* C2: from a store within budget, with budgets unchanged, sequential       *)
(* creates and admin edits keep every area's stored landed cost at most its *)
(* total_budget.                                                            *)
SpendNeverExceedsBudget ==
    \A b \in budget_heads :
        SumCost({r \in requests : r.cost_area = b.cost_area}) <= b.total_budget

(* C3: a create that passes the field, positive-cost and duplicate checks   *)
(* is inserted when its cost is at most the true remaining balance R of the *)
(* target area, and is rejected as budget-exceeded, with no row inserted,   *)
(* when its cost is above R.                                                *)
CreateDecidedByTrueRemaining ==
    [][(/\ last'.op = "NewRequest"
        /\ last'.outcome \notin {"NoBudgets", "MissingOrInvalid", "Duplicate"}
        /\ \E b \in budget_heads : b.cost_area = last'.cost_area)
       => IF last'.cost <= TrueRemaining(last'.cost_area)
          THEN \E r \in requests' \ requests :
                   r.mn_number = last'.mn_number /\ r.landed_total_cost = last'.cost
          ELSE last'.outcome = "BudgetExceeded" /\ requests' = requests]_vars

(* C4: an admin edit that keeps the request's cost_area and passes the      *)
(* field checks succeeds exactly when the new landed cost is at most the    *)
(* area's current remaining balance plus the request's stored landed cost;  *)
(* otherwise the request is unchanged.                                      *)
SameAreaEditCreditsStoredCost ==
    [][\A r \in requests :
          (/\ last'.op = "AdminEditMN"
           /\ last'.id = r.id
           /\ last'.cost_area = r.cost_area
           /\ last'.cost > 0
           /\ \E b \in budget_heads : b.cost_area = r.cost_area)
          => IF last'.cost <= TrueRemaining(r.cost_area) + r.landed_total_cost
             THEN last'.outcome = "Saved"
             ELSE last'.outcome # "Saved" /\ requests' = requests]_vars

(* C5: an admin edit that moves a request to another cost area succeeds     *)
(* only if the new landed cost is at most the remaining balance of the new  *)
(* area; after the move the old area's utilized cost is lower by the        *)
(* original landed cost and the new area's is higher by the new one.        *)
MoveChecksNewAreaOnly ==
    [][\A r \in requests :
          (/\ last'.op = "AdminEditMN"
           /\ last'.outcome = "Saved"
           /\ last'.id = r.id
           /\ last'.cost_area # r.cost_area)
          => /\ last'.cost <= TrueRemaining(last'.cost_area)
             /\ SumCost({x \in requests' : x.cost_area = r.cost_area})
                   = TrueUtilized(r.cost_area) - r.landed_total_cost
             /\ SumCost({x \in requests' : x.cost_area = last'.cost_area})
                   = TrueUtilized(last'.cost_area) + last'.cost]_vars

(* C6 as written: a create whose mn_number is held by an existing request   *)
(* is rejected with the duplicate-key outcome whatever the other fields     *)
(* are (blank mandatory fields, zero cost, cost over budget), and no row is *)
(* inserted.                                                                *)
DuplicateCreateAlwaysDuplicateKey ==
    [][(/\ last'.op = "NewRequest"
        /\ \E r \in requests : r.mn_number = last'.mn_number)
       => last'.outcome = "Duplicate" /\ requests' = requests]_vars

(* C6: a create whose mn_number is held by an existing request inserts no   *)
(* row, and is rejected with the duplicate-key outcome whenever the         *)
(* mandatory fields are filled and the cost is positive, a cost over budget *)
(* included; with a blank mandatory field or a zero cost it is rejected by  *)
(* the field validation that runs first.                                    *)
DuplicateCreateRejected ==
    [][(/\ last'.op = "NewRequest"
        /\ \E r \in requests : r.mn_number = last'.mn_number)
       => /\ requests' = requests
          /\ last'.outcome =
                IF \/ MissingFields(last'.mn_number, last'.department, last'.cost_area)
                   \/ last'.cost <= 0
                THEN "MissingOrInvalid" ELSE "Duplicate"]_vars

OverBudgetDuplicateRejectedAsDuplicate ==
    /\ last.op = "NewRequest"
    /\ last.outcome = "Duplicate"
    /\ last.cost > MaxBudget
    /\ \E r \in requests : r.mn_number = last.mn_number

(* C7: in every reachable state no two requests have the same mn_number.    *)
MnNumberUnique ==
    \A r1 \in requests, r2 \in requests : r1.mn_number = r2.mn_number => r1.id = r2.id

(* C8: an admin edit that keeps the request's own mn_number is never        *)
(* rejected as a duplicate, and an edit that changes mn_number to one held  *)
(* by a different request is rejected and leaves the requests unchanged.    *)
EditDuplicateCheckExcludesSelf ==
    [][\A r \in requests :
          (last'.op = "AdminEditMN" /\ last'.id = r.id)
          => /\ last'.mn_number = r.mn_number => last'.outcome # "Duplicate"
             /\ (/\ last'.mn_number # r.mn_number
                 /\ \E x \in requests : x.id # r.id /\ x.mn_number = last'.mn_number)
                => last'.outcome # "Saved" /\ requests' = requests]_vars

(* C9: after any sequence of add-line-item and delete-line-item operations  *)
(* on a bill, the header's total_bill_amount equals the sum of amount over  *)
(* the line items of that bill (0 when there are none).                     *)
HeaderTotalMatchesLines ==
    \A h \in indent_purchase_record :
        h.total_bill_amount =
            SumAmount({g \in indent_goods_details : g.indent_no = h.bill_no})

(* C10: a budget head edit that changes the cost_area string is rejected,   *)
(* leaving the head unchanged, whenever requests with a positive total      *)
(* landed cost are stored under the old cost_area; it is accepted when that *)
(* total is 0 and no other head uses the new name.                          *)
RenameOnlyAtZeroUtilization ==
    [][\A b \in budget_heads :
          (/\ last'.op = "AdminEditBudget"
           /\ last'.id = b.id
           /\ last'.cost_area # Blank
           /\ last'.cost_area # b.cost_area)
          => /\ TrueUtilized(b.cost_area) > 0
                => last'.outcome # "Saved" /\ budget_heads' = budget_heads
             /\ (/\ TrueUtilized(b.cost_area) = 0
                 /\ ~\E x \in budget_heads : x.id # b.id /\ x.cost_area = last'.cost_area)
                => last'.outcome = "Saved"]_vars

(* C11: after an accepted budget head edit that changes the cost_area name  *)
(* or the department, every request that pointed at the old cost_area       *)
(* carries the new cost_area and department.                                *)
HeadEditCascadesToRequests ==
    [][\A b \in budget_heads :
          (/\ last'.op = "AdminEditBudget"
           /\ last'.outcome = "Saved"
           /\ last'.id = b.id
           /\ (last'.cost_area # b.cost_area \/ last'.department # b.department))
          => \A r \in requests :
                r.cost_area = b.cost_area
                => \E x \in requests' :
                      /\ x.id = r.id
                      /\ x.cost_area = last'.cost_area
                      /\ x.department = last'.department]_vars

(* C12: an operation that would set a budget head's total_budget below the  *)
(* utilized cost of its cost_area is rejected and leaves total_budget       *)
(* unchanged, on every path that writes it: the admin edit form, the manual *)
(* add/update form and the file import.                                     *)
BudgetNeverSetBelowUtilized ==
    [][\A b \in budget_heads :
          (/\ last'.cost < TrueUtilized(b.cost_area)
           /\ \/ last'.op \in {"ManualBudgetForm", "ImportBudgetFile"}
                  /\ last'.cost_area = b.cost_area
              \/ last'.op = "AdminEditBudget" /\ last'.id = b.id)
          => last'.outcome # "Saved" /\ budget_heads' = budget_heads]_vars

(* C13: the bulk clear succeeds in any state, removes every budget head and *)
(* leaves every request unchanged; while no budget head exists the ledger   *)
(* is empty and every create submission stops at the empty-budget guard.    *)
BulkClearKeepsRequests ==
    /\ [](ENABLED ClearAllBudgetData)
    /\ [][last'.op = "ClearAllBudgetData"
             => budget_heads' = {} /\ requests' = requests]_vars
    /\ [](budget_heads = {}
             => /\ df_status = {}
                /\ \A mn_no \in MNs, dept \in Depts, area \in AreaNames, cost \in CostInputs :
                      NewRequestOutcome(mn_no, dept, area, cost) = "NoBudgets")

CreateStoppedAfterBulkClear ==
    /\ last.op = "NewRequest"
    /\ last.outcome = "NoBudgets"
    /\ budget_heads = {}
    /\ requests # {}

(* C14: a create submission that passes every validation step ends with     *)
(* exactly one new request stored, carrying the submitted mn_number,        *)
(* cost_area and landed_total_cost (with status "Pending" and the customs   *)
(* duty percentage of the calculation as customs_duty_rate).                *)
ValidatedCreateStoresOneRequest ==
    [][(/\ last'.op = "NewRequest"
        /\ last'.outcome \notin {"NoBudgets", "MissingOrInvalid", "Duplicate",
                                 "UnknownCostArea", "BudgetExceeded"})
       => /\ Cardinality(requests' \ requests) = 1
          /\ \A r \in requests' \ requests :
                /\ r.mn_number = last'.mn_number
                /\ r.cost_area = last'.cost_area
                /\ r.landed_total_cost = last'.cost]_vars

(* C15: a create submission or an admin edit whose target cost_area has no  *)
(* budget head at the time of the check is rejected and stores nothing,     *)
(* whatever the cost.                                                       *)
UnknownAreaStoresNothing ==
    [][(/\ last'.op \in {"NewRequest", "AdminEditMN"}
        /\ last'.cost_area \notin {b.cost_area : b \in budget_heads})
       => last'.outcome # "Saved" /\ requests' = requests]_vars

(* C16: creating a bill is rejected, with no header and no line item        *)
(* stored, if the bill_no already exists, no line items are attached, the   *)
(* summed amount is <= 0, or bill_no or payment mode is missing; on success *)
(* the header and all attached items are stored together, every item's     *)
(* indent_no is the header's bill_no and total_bill_amount is the sum of    *)
(* the line amounts.                                                        *)
BillCreateValidated ==
    [][last'.op = "FinalIndentForm"
       => IF \/ \E h \in indent_purchase_record : h.bill_no = strip(last'.cost_area)
             \/ current_goods_data = <<>>
             \/ SumSeq(current_goods_data) <= 0
             \/ strip(last'.cost_area) = ""
             \/ last'.department = Blank
          THEN /\ indent_purchase_record' = indent_purchase_record
               /\ indent_goods_details' = indent_goods_details
          ELSE /\ \E h \in indent_purchase_record' \ indent_purchase_record :
                     /\ h.bill_no = strip(last'.cost_area)
                     /\ h.total_bill_amount = SumSeq(current_goods_data)
                     /\ h.total_bill_amount =
                           SumAmount({g \in indent_goods_details' : g.indent_no = h.bill_no})
               /\ Cardinality(indent_goods_details' \ indent_goods_details)
                     = Len(current_goods_data)]_vars

(* C17: a header edit that changes bill_no to a value no other bill uses  *)
(* succeeds: afterwards the header exists under the new bill_no with the   *)
(* same total, every line item of the bill references the new bill_no and  *)
(* none the old one; if the new bill_no exists, nothing changes.           *)
HeaderRenameMovesBill ==
    [][(/\ last'.op = "AdminEditIndentHeader"
        /\ last'.cost_area # last'.mn_number
        /\ last'.cost_area # ""
        /\ \E h \in indent_purchase_record : h.bill_no = last'.mn_number)
       => IF \E h \in indent_purchase_record : h.bill_no = last'.cost_area
          THEN UNCHANGED indentStore
          ELSE /\ last'.outcome = "Saved"
               /\ \E h \in indent_purchase_record, h2 \in indent_purchase_record' :
                     /\ h.bill_no = last'.mn_number
                     /\ h2.bill_no = last'.cost_area
                     /\ h2.total_bill_amount = h.total_bill_amount
               /\ \A g \in indent_goods_details' : g.indent_no # last'.mn_number
               /\ Cardinality({g \in indent_goods_details' : g.indent_no = last'.cost_area})
                    = Cardinality({g \in indent_goods_details : g.indent_no = last'.mn_number})
      ]_vars

(* C18: line-item add, line-item delete and bill renumbering are atomic:   *)
(* a run that fails after its first write leaves the committed tables as   *)
(* they were, a line item is never committed without the write of its      *)
(* header total (nor the reverse), and no committed state holds line items *)
(* whose header is gone.                                                    *)
IndentWritesAtomic ==
    /\ [][(last'.op \in {"AddLineItem", "DeleteLineItem", "AdminEditIndentHeader"}
            /\ last'.outcome # "Saved") => IndentDb' = IndentDb]_vars
    /\ [][(last'.op \in {"AddLineItem", "DeleteLineItem"} /\ last'.outcome = "Saved")
           => /\ IF last'.op = "AddLineItem"
                 THEN \E g \in indent_goods_details' \ indent_goods_details :
                         g.indent_no = last'.cost_area /\ g.amount = last'.cost
                 ELSE \A g \in indent_goods_details' : g.id # last'.id
              /\ \E t \in {(CHOOSE h \in indent_purchase_record' :
                                 h.bill_no = last'.cost_area).total_bill_amount} :
                    indent_purchase_record' =
                          {IF h.bill_no = last'.cost_area
                           THEN [h EXCEPT !.total_bill_amount = t] ELSE h
                           : h \in indent_purchase_record}]_vars
    /\ [](\A g \in indent_goods_details :
             \E h \in indent_purchase_record : h.bill_no = g.indent_no)

RenumberingRolledBackWithItems ==
    /\ last.op = "AdminEditIndentHeader"
    /\ last.outcome = "RolledBack"
    /\ last.cost_area # last.mn_number
    /\ \E g \in indent_goods_details : g.indent_no = last.mn_number
    /\ \E h \in indent_purchase_record : h.bill_no = last.mn_number

(* C19: two create submissions from different sessions against one cost   *)
(* area can both pass the budget check before either inserts, and both     *)
(* rows are then committed, so that the area's total landed cost ends      *)
(* above its total_budget.                                                 *)
RacingCreatesBothCommitted ==
    (/\ \A s \in Sessions : submit_run[s].pc = "done"
     /\ submit_run[1].seen = submit_run[2].seen
     /\ submit_run[1].cost_area = submit_run[2].cost_area
     /\ submit_run[1].mn_number # submit_run[2].mn_number)
    => \A s \in Sessions :
          \E r \in requests :
             /\ r.mn_number = submit_run[s].mn_number
             /\ r.cost_area = submit_run[s].cost_area
             /\ r.landed_total_cost = submit_run[s].landed_total_cost

(* C20: for all non-negative cost inputs, every currency and every        *)
(* configured duty and rate, the create form and the edit form compute     *)
(* (foreign_spare_cost * (1 + customs_duty_pct) + freight_fca_charges)     *)
(* * fx_rate(currency) + local_cost_wo_vat_ait + vat_ait, with             *)
(* fx_rate(BDT) = 1; a saved request holds exactly the computed value in   *)
(* landed_total_cost and in estimated_cost.                                *)
FxRate(config_dict, currency) ==
    CASE currency = "BDT"   -> 1
      [] currency = "USD"   -> config_dict.USD_rate
      [] currency = "EUR"   -> config_dict.EUR_rate
      [] currency = "GBP"   -> config_dict.GBP_rate
      [] currency = "INR"   -> config_dict.INR_rate
      [] currency = "Other" -> config_dict.OTHER_rate

LandedCostValues ==
    {(fsc * (1 + config_dict.CustomsDuty_pct) + ffc) * FxRate(config_dict, currency)
        + lcwa + va
     : config_dict \in ConfigDicts, currency \in Currencies,
       fsc \in 0..MaxInput, ffc \in 0..MaxInput, lcwa \in 0..MaxInput, va \in 0..MaxInput}

LandedCostMatchesFormula ==
    /\ [](\A config_dict \in ConfigDicts, currency \in Currencies,
             fsc \in 0..MaxInput, ffc \in 0..MaxInput,
             lcwa \in 0..MaxInput, va \in 0..MaxInput :
            LET formula == (fsc * (1 + config_dict.CustomsDuty_pct) + ffc)
                              * FxRate(config_dict, currency) + lcwa + va
            IN  /\ landed_total_cost(config_dict, currency, fsc, ffc, lcwa, va) = formula
                /\ landed_total_cost_new(config_dict, currency, fsc, ffc, lcwa, va) = formula)
    /\ [][(last'.op \in {"NewRequest", "AdminEditMN"} /\ last'.outcome = "Saved")
           => /\ last'.cost \in LandedCostValues
              /\ \E r \in requests' :
                    /\ r.mn_number = last'.mn_number
                    /\ r.landed_total_cost = last'.cost
                    /\ r.estimated_cost = last'.cost]_vars
    /\ [](\A r \in requests : r.estimated_cost = r.landed_total_cost)

EditedCostStored ==
    /\ last.op = "AdminEditMN"
    /\ last.outcome = "Saved"
    /\ last.cost = MaxCost
    /\ \E r \in requests :
          /\ r.id = last.id
          /\ r.landed_total_cost = MaxCost
          /\ r.estimated_cost = MaxCost

(* C23: a create or admin edit rejected by a business rule ends as a      *)
(* reported error with requests and budget_heads as they were, and no      *)
(* submission, accepted or rejected, ends in an unhandled failure.         *)
SubmissionsEndReported ==
    [][last'.op \in {"NewRequest", "AdminEditMN"}
       => /\ last'.outcome \in {"NoBudgets", "NotFound", "MissingOrInvalid", "Duplicate",
                                 "UnknownCostArea", "BudgetExceeded", "Saved"}
          /\ last'.outcome # "Saved" => UNCHANGED <<requests, budget_heads>>]_vars

(* C29: every indent_goods_details row's indent_no is the bill_no of an    *)
(* existing indent_purchase_record header, whatever bills are created,     *)
(* edited or renamed and whatever line items are added or deleted.         *)
LineItemsReferenceHeader ==
    \A g \in indent_goods_details :
        \E h \in indent_purchase_record : h.bill_no = g.indent_no

SecondBillSavedWithItems ==
    /\ last.op = "FinalIndentForm"
    /\ last.outcome = "Saved"
    /\ Cardinality(indent_purchase_record) >= 2
    /\ \A h \in indent_purchase_record :
          \E g \in indent_goods_details : g.indent_no = h.bill_no

(* C30: without the bulk clear, every request's cost_area is the cost_area *)
(* of an existing budget head, whatever requests are created or edited and *)
(* whatever budget heads are added, imported, edited or renamed.           *)
RequestsReferenceBudgetHead ==
    \A r \in requests : \E b \in budget_heads : b.cost_area = r.cost_area

(* C21: saving the financial configuration leaves every stored request and  *)
(* the utilized amount of every cost area, in the store and in the ledger   *)
(* calculate_status returns, as they were.                                  *)
ConfigSaveKeepsRequestsAndLedger ==
    [][last'.op = "SaveConfiguration" =>
          /\ requests' = requests
          /\ TrueStatus' = TrueStatus
          /\ df_status' = df_status]_vars

(* A save that changed the duty and a rate while requests with a cost were  *)
(* stored.                                                                  *)
ConfigSavedOverCostedRequests ==
    /\ last.op = "SaveConfiguration"
    /\ exchange_config.CustomsDuty_pct # DefaultConfig.CustomsDuty_pct
    /\ exchange_config.USD_rate # DefaultConfig.USD_rate
    /\ \E r \in requests : r.landed_total_cost > 0

(* C26: a create submission or admin edit computes its landed cost with the *)
(* configuration values now stored: the rates get_config_rates() returned   *)
(* to it, which it leaves cached, are the stored ones.                      *)
CostsUseSavedConfiguration ==
    [][last'.op \in {"NewRequest", "AdminEditMN"} =>
          cache_get_config_rates' = <<exchange_config>>]_vars

(* C22: a read of the budget ledger that follows an earlier read with no    *)
(* request or budget head mutation in between shows the same rows as the    *)
(* earlier one, however much time has passed.                               *)
LedgerReadsRepeat ==
    [][balance_sheet # NoEntry /\ last'.op = "ViewBalanceSheet" =>
          balance_sheet' = balance_sheet]_vars

TrackerSaveStatusRule ==
    [][last'.op = "TrackerSave" =>
          LET selected_mn == last'.mn_number
              lc_po_nr == (CHOOSE t \in lc_po_tracker' : t.mn_number = selected_mn).lc_po_nr
          IN  /\ \A r \in requests : \A x \in requests' :
                    x.id = r.id =>
                      IF r.mn_number = selected_mn /\ lc_po_nr # Blank
                             /\ r.status = "Finance Approved"
                      THEN x.status = "PO Issued"
                      ELSE x.status = r.status
              /\ \E r \in requests :
                    r.mn_number = selected_mn /\ r.status \in {"Finance Approved", "PO Issued"}]_vars

(* C24: every tracker row carries the mn_number of exactly one stored       *)
(* request, and no two rows share an mn_number.                             *)
TrackerRowsMatchRequests ==
    /\ \A t \in lc_po_tracker : Cardinality({r \in requests : r.mn_number = t.mn_number}) = 1
    /\ \A t1, t2 \in lc_po_tracker : t1.mn_number = t2.mn_number => t1 = t2

====
